---- MODULE Spec2Model ----
(***************************************************************************)
(* Model of the Blender add-on "Emission + Room Lumens + Color Temp"       *)
(* (src/__init__.py): the MaterialEmissionProperties record attached to a  *)
(* material, the material's shader node tree, the context object, and the  *)
(* five operators with the two property update callbacks.                  *)
(*                                                                         *)
(* Floating point quantities are modelled as exact rationals [n, d] in     *)
(* lowest terms (metres, square metres, lumens, lm/W).  Vertex coordinates *)
(* are integers in decimetres, world space.                                *)
(***************************************************************************)
EXTENDS Integers, Sequences, FiniteSets, TLC

VARIABLES props, use_nodes, node_tree, ctx, obj_scale, faces, call, result, report, steps

vars ==
  <<props, use_nodes, node_tree, ctx, obj_scale, faces, call, result, report, steps>>

(***************************************************************************)
(* Bounds of the exploration.                                              *)
(***************************************************************************)
MaxSteps ==
  2

(***************************************************************************)
(* Exact rational arithmetic standing for Python float arithmetic.         *)
(***************************************************************************)
Abs(x) ==
  IF x < 0 THEN -x ELSE x

RECURSIVE GCD(_, _)
GCD(a, b) ==
  IF b = 0 THEN a ELSE GCD(b, a % b)

Rat(n, d) ==
  LET g == GCD(Abs(n), Abs(d))
      s == IF d < 0 THEN -1 ELSE 1
  IN  [n |-> s * (n \div g), d |-> s * (d \div g)]

R(i) ==
  [n |-> i, d |-> 1]

RMul(a, b) ==
  LET g1 == GCD(Abs(a.n), b.d)
      g2 == GCD(Abs(b.n), a.d)
  IN  Rat((a.n \div g1) * (b.n \div g2), (a.d \div g2) * (b.d \div g1))

RDiv(a, b) ==
  RMul(a, Rat(b.d, b.n))

RAdd(a, b) ==
  Rat(a.n * b.d + b.n * a.d, a.d * b.d)

RSub(a, b) ==
  Rat(a.n * b.d - b.n * a.d, a.d * b.d)

RLess(a, b) ==
  a.n * b.d < b.n * a.d

RLeq(a, b) ==
  a.n * b.d <= b.n * a.d

RMax(a, b) ==
  IF RLess(a, b) THEN b ELSE a

RSum(S) ==
  LET RECURSIVE Go(_, _)
      Go(i, acc) == IF i > Len(S) THEN acc ELSE Go(i + 1, RAdd(acc, S[i]))
  IN  Go(1, R(0))

(***************************************************************************)
(* The scene: objects the context, the wall pointers and the height        *)
(* pointer can refer to.  None stands for Python's None.                   *)
(***************************************************************************)
None ==
  "None"

Box(ex, ey, ez) ==
  {<<x, y, z>> : x \in {0, ex}, y \in {0, ey}, z \in {0, ez}}

\* type, active material (the one material M of the model, or None),
\* active_material_index and world-space vertices of every scene object.
Scene ==
  [ Bulb  |-> [type |-> "MESH",  active_material |-> "M",  active_material_index |-> 0,
               verts |-> Box(5, 10, 3)],
    Room  |-> [type |-> "MESH",  active_material |-> "M",  active_material_index |-> 0,
               verts |-> Box(40, 50, 31)],
    Wire  |-> [type |-> "MESH",  active_material |-> None, active_material_index |-> 0,
               verts |-> {<<0, 0, 0>>, <<10, 0, 0>>, <<20, 0, 0>>}],
    Curve |-> [type |-> "CURVE", active_material |-> "M",  active_material_index |-> 0,
               verts |-> {}],
    Blank |-> [type |-> "MESH",  active_material |-> None, active_material_index |-> 0,
               verts |-> {}] ]

Objects ==
  DOMAIN Scene

Pointers ==
  Objects \cup {None}

(***************************************************************************)
(* Utility functions.                                                      *)
(***************************************************************************)
\* Sum of the areas of the faces of obj that use its active material slot.
\* fs is the mesh data: a sequence of [material_index, area] in local space.
get_active_material_area(obj, fs) ==
  IF obj = None \/ Scene[obj].type /= "MESH"
  THEN R(0)
  ELSE LET active_index == Scene[obj].active_material_index
           mine == SelectSeq(fs[obj], LAMBDA f : f.material_index = active_index)
       IN  RSum([i \in 1..Len(mine) |-> mine[i].area])

RECURSIVE SumAxis(_, _)
SumAxis(S, k) ==
  IF S = {} THEN 0
  ELSE LET v == CHOOSE v \in S : TRUE IN v[k] + SumAxis(S \ {v}, k)

RECURSIVE SumSqAxis(_, _)
SumSqAxis(S, k) ==
  IF S = {} THEN 0
  ELSE LET v == CHOOSE v \in S : TRUE IN v[k] * v[k] + SumSqAxis(S \ {v}, k)

RECURSIVE SeqTotal(_)
SeqTotal(s) ==
  IF s = <<>> THEN 0 ELSE Head(s) + SeqTotal(Tail(s))

SetMax(S) ==
  CHOOSE m \in S : \A x \in S : x <= m

SetMin(S) ==
  CHOOSE m \in S : \A x \in S : m <= x

\* Vertices contributed by one reference object (only meshes contribute).
MeshVerts(o) ==
  IF o /= None /\ Scene[o].type = "MESH" THEN Scene[o].verts ELSE {}

\* Diagonal of the covariance matrix of the gathered vertices, times N*N.
\* The scene's vertex clouds are axis aligned, so the covariance matrix is
\* diagonal, its eigenvectors are the coordinate axes and its eigenvalues
\* are these variances.
AxisVariance(objects, k) ==
  LET N  == SeqTotal([i \in 1..Len(objects) |-> Cardinality(MeshVerts(objects[i]))])
      s1 == SeqTotal([i \in 1..Len(objects) |-> SumAxis(MeshVerts(objects[i]), k)])
      s2 == SeqTotal([i \in 1..Len(objects) |-> SumSqAxis(MeshVerts(objects[i]), k)])
  IN  N * s2 - s1 * s1

\* np.argmin / np.argmax: the first index holding the extreme value.
ArgMin(f) ==
  CHOOSE k \in 1..3 : (\A j \in 1..3 : f[k] <= f[j]) /\ (\A j \in 1..(k - 1) : f[j] > f[k])

ArgMax(f) ==
  CHOOSE k \in 1..3 : (\A j \in 1..3 : f[k] >= f[j]) /\ (\A j \in 1..(k - 1) : f[j] < f[k])

\* Projected floor area of the wall objects (or of the active object).
\* No scene object has three equal variances, the one case in which
\* normal = axis_x and the cross product vanishes.
bounding_box_area_xy(p, active_object) ==
  LET walls   == (IF p.wall_a /= None THEN <<p.wall_a>> ELSE <<>>)
                 \o (IF p.wall_b /= None THEN <<p.wall_b>> ELSE <<>>)
      objects == IF Len(walls) = 0 /\ active_object /= None
                    /\ Scene[active_object].type = "MESH"
                 THEN <<active_object>> ELSE walls
      pts     == UNION {MeshVerts(objects[i]) : i \in 1..Len(objects)}
      count   == SeqTotal([i \in 1..Len(objects) |-> Cardinality(MeshVerts(objects[i]))])
      eigvals == [k \in 1..3 |-> AxisVariance(objects, k)]
      normal  == ArgMin(eigvals)
      axis_x  == ArgMax(eigvals)
      axis_y  == CHOOSE k \in 1..3 : k \notin {normal, axis_x}
      ext(k)  == SetMax({v[k] : v \in pts}) - SetMin({v[k] : v \in pts})
  IN  IF Len(objects) = 0 THEN R(0)
      ELSE IF count < 3 THEN R(0)
      ELSE Rat(Abs(ext(axis_x) * ext(axis_y)), 100)

\* Z extent of a mesh object.
object_height(obj) ==
  IF obj = None \/ Scene[obj].type /= "MESH"
  THEN R(0)
  ELSE LET zs == {v[3] : v \in Scene[obj].verts}
       IN  IF zs /= {} THEN Rat(SetMax(zs) - SetMin(zs), 10) ELSE R(0)

(***************************************************************************)
(* MaterialEmissionProperties.                                             *)
(***************************************************************************)
CUSTOM ==
  <<"C", "U", "S", "T", "O", "M">>

\* identifier (as its characters) and the number shown in the UI label.
ler_preset_items ==
  << [id |-> <<"3", "0", "0">>, shown |-> 300],
     [id |-> <<"2", "5", "0">>, shown |-> 250],
     [id |-> <<"6", "8", "3">>, shown |-> 683],
     [id |-> <<"1", "5", "0">>, shown |-> 150],
     [id |-> <<"1", "0", "0">>, shown |-> 100],
     [id |-> <<"5", "0">>,      shown |-> 50],
     [id |-> CUSTOM,            shown |-> 0] >>

LerPresets ==
  {ler_preset_items[i].id : i \in 1..Len(ler_preset_items)}

DigitValue ==
  [c \in {"0", "1", "2", "3", "4", "5", "6", "7", "8", "9"} |->
     CASE c = "0" -> 0 [] c = "1" -> 1 [] c = "2" -> 2 [] c = "3" -> 3 [] c = "4" -> 4
       [] c = "5" -> 5 [] c = "6" -> 6 [] c = "7" -> 7 [] c = "8" -> 8 [] c = "9" -> 9]

\* Python float() of a string of decimal digits.
RECURSIVE ParseDigits(_, _)
ParseDigits(s, acc) ==
  IF s = <<>> THEN acc ELSE ParseDigits(Tail(s), 10 * acc + DigitValue[Head(s)])

float(s) ==
  R(ParseDigits(s, 0))

\* key and the lux figure advertised in the UI label of every room type.
room_type_items ==
  << [key |-> "kitchen_gen",     label_lux |-> 250],
     [key |-> "kitchen_task",    label_lux |-> 500],
     [key |-> "living_gen",      label_lux |-> 150],
     [key |-> "living_read",     label_lux |-> 400],
     [key |-> "bedroom_gen",     label_lux |-> 100],
     [key |-> "bedroom_read",    label_lux |-> 300],
     [key |-> "office",          label_lux |-> 400],
     [key |-> "workshop",        label_lux |-> 500],
     [key |-> "bathroom_gen",    label_lux |-> 250],
     [key |-> "bathroom_mirror", label_lux |-> 500],
     [key |-> "studio",          label_lux |-> 750],
     [key |-> "dining",          label_lux |-> 150],
     [key |-> "hallway",         label_lux |-> 100],
     [key |-> "laundry",         label_lux |-> 300],
     [key |-> "gym",             label_lux |-> 300],
     [key |-> "patio",           label_lux |-> 100] >>

RoomTypes ==
  {room_type_items[i].key : i \in 1..Len(room_type_items)}

\* The declared hard minimum of every property that has one.
PropMin ==
  [ lumens      |-> R(0),
    ler         |-> R(1),
    area        |-> Rat(1, 10000),
    num_lights  |-> 1,
    room_area   |-> R(1),
    room_height |-> Rat(1, 2) ]

\* a variant that stores whatever it is given
SetProp_unclamped(p, f, v) ==
  [p EXCEPT ![f] = v]

\* Assignment to a property: a value below the declared min is stored as
\* the min (bpy.props hard minimum).
SetProp(p, f, v) ==
  IF f \in DOMAIN PropMin
  THEN IF f = "num_lights"
       THEN [p EXCEPT ![f] = IF v < PropMin[f] THEN PropMin[f] ELSE v]
       ELSE [p EXCEPT ![f] = RMax(PropMin[f], v)]
  ELSE [p EXCEPT ![f] = v]

\* The record as created with a material: every field at its default.
DefaultProps ==
  [ lumens           |-> R(850),
    ler_preset       |-> <<"3", "0", "0">>,
    ler              |-> R(300),
    auto_area        |-> TRUE,
    area             |-> Rat(2, 100),
    num_lights       |-> 1,
    strength         |-> R(0),
    room_area_source |-> "MANUAL",
    room_area        |-> R(20),
    wall_a           |-> None,
    wall_b           |-> None,
    height_source    |-> "MANUAL",
    height_object    |-> None,
    room_height      |-> Rat(27, 10),
    room_type        |-> "living_gen",
    lumens_min       |-> R(0),
    lumens_avg       |-> R(0),
    lumens_max       |-> R(0),
    temp_min         |-> 0,
    temp_avg         |-> 0,
    temp_max         |-> 0 ]

\* a variant that never synchronizes
update_ler_never(p) ==
  p

update_ler_from_preset(p) ==
  IF p.ler_preset /= CUSTOM
  THEN SetProp(p, "ler", float(p.ler_preset))
  ELSE p

update_height_from_object(p) ==
  IF p.height_source = "FROM_OBJECT" /\ p.height_object /= None
     /\ Scene[p.height_object].type = "MESH"
  THEN LET h == object_height(p.height_object)
       IN  IF RLess(R(0), h) THEN SetProp(p, "room_height", h) ELSE p
  ELSE p

(***************************************************************************)
(* The material's shader node tree.  A tree is [present, nodes, links]:    *)
(* nodes is the ordered node collection, every node [id, type, inputs];    *)
(* links is a set of [from_node, from_socket, to_node, to_socket].         *)
(***************************************************************************)
\* bl_idname of the node classes the add-on creates -> node.type
NodeType ==
  [ ShaderNodeBsdfPrincipled |-> "BSDF_PRINCIPLED",
    ShaderNodeOutputMaterial |-> "OUTPUT_MATERIAL",
    ShaderNodeBlackbody      |-> "BLACKBODY",
    ShaderNodeEmission       |-> "EMISSION",
    ShaderNodeMixShader      |-> "MIX_SHADER",
    ShaderNodeTexImage       |-> "TEX_IMAGE" ]

\* socket type of every output of a node type
NodeOutputs ==
  [ BSDF_PRINCIPLED |-> [BSDF |-> "SHADER"],
    OUTPUT_MATERIAL |-> [x \in {} |-> "SHADER"],
    BLACKBODY       |-> [Color |-> "RGBA"],
    EMISSION        |-> [Emission |-> "SHADER"],
    MIX_SHADER      |-> [Shader |-> "SHADER"],
    TEX_IMAGE       |-> [Color |-> "RGBA", Alpha |-> "VALUE"] ]

\* value inputs of a freshly created node, with the host's defaults
NodeInputs ==
  [ BSDF_PRINCIPLED |-> [ Metallic |-> R(0), Roughness |-> Rat(1, 2), IOR |-> Rat(3, 2),
                          IORLevel |-> Rat(1, 2), TransmissionWeight |-> R(0),
                          CoatWeight |-> R(0), SheenWeight |-> R(0),
                          EmissionStrength |-> R(0) ],
    OUTPUT_MATERIAL |-> [x \in {} |-> R(0)],
    BLACKBODY       |-> [Temperature |-> R(1500)],
    EMISSION        |-> [Strength |-> R(1)],
    MIX_SHADER      |-> [Fac |-> Rat(1, 2)],
    TEX_IMAGE       |-> [x \in {} |-> R(0)] ]

NodeIds(tree) ==
  {tree.nodes[i].id : i \in 1..Len(tree.nodes)}

FreshId(tree) ==
  CHOOSE i \in 1..(Len(tree.nodes) + 1) :
    i \notin NodeIds(tree) /\ \A j \in 1..(i - 1) : j \in NodeIds(tree)

\* nodes.new(type): the new node is appended; its id is FreshId(tree).
nodes_new(tree, idname) ==
  LET t == NodeType[idname]
  IN  [tree EXCEPT !.nodes = Append(@, [id |-> FreshId(tree), type |-> t,
                                         inputs |-> NodeInputs[t]])]

\* nodes.remove(node): the node goes, and every link touching it.
nodes_remove(tree, id) ==
  [tree EXCEPT !.nodes = SelectSeq(@, LAMBDA n : n.id /= id),
               !.links = {l \in @ : l.from_node /= id /\ l.to_node /= id}]

\* links.new(output, input): an input socket holds one link, the new one.
links_new(tree, fn, fs, tn, ts) ==
  [tree EXCEPT !.links = {l \in @ : ~(l.to_node = tn /\ l.to_socket = ts)}
                           \cup {[from_node |-> fn, from_socket |-> fs,
                                  to_node |-> tn, to_socket |-> ts]}]

set_input(tree, id, name, v) ==
  [tree EXCEPT !.nodes = [i \in 1..Len(@) |->
      IF @[i].id = id THEN [@[i] EXCEPT !.inputs[name] = v] ELSE @[i]]]

\* next((n for n in nodes if n.type == t), None): 0 stands for None.
first_of_type(tree, t) ==
  IF \E i \in 1..Len(tree.nodes) : tree.nodes[i].type = t
  THEN tree.nodes[CHOOSE i \in 1..Len(tree.nodes) :
         tree.nodes[i].type = t /\ \A j \in 1..(i - 1) : tree.nodes[j].type /= t].id
  ELSE 0

node_by_id(tree, id) ==
  tree.nodes[CHOOSE i \in 1..Len(tree.nodes) : tree.nodes[i].id = id]

NoTree ==
  [present |-> FALSE, nodes |-> <<>>, links |-> {}]

EmptyTree ==
  [present |-> TRUE, nodes |-> <<>>, links |-> {}]

\* mat.use_nodes = True: a material without a node tree gets the host's
\* default tree, a Principled BSDF linked to a Material Output.
DefaultTree ==
  links_new(nodes_new(nodes_new(EmptyTree, "ShaderNodeBsdfPrincipled"),
                      "ShaderNodeOutputMaterial"),
            1, "BSDF", 2, "Surface")

enable_nodes(tree) ==
  IF tree.present THEN tree ELSE DefaultTree

Outcome(p, un, tree, sc, fs, res, level, msg) ==
  [props |-> p, use_nodes |-> un, node_tree |-> tree, obj_scale |-> sc, faces |-> fs,
   result |-> res, report |-> [level |-> level, msg |-> msg]]

active_material(obj) ==
  IF obj = None THEN None ELSE Scene[obj].active_material

(***************************************************************************)
(* MATERIAL_OT_make_it_lamp.execute                                        *)
(***************************************************************************)
is_shader(node) ==
  \E o \in DOMAIN NodeOutputs[node.type] : NodeOutputs[node.type][o] = "SHADER"

\* a variant that sweeps the shaders only and keeps old Blackbody nodes
RECURSIVE Sweep_shaders_only(_, _)
Sweep_shaders_only(list, tree) ==
  IF list = <<>> THEN tree
  ELSE LET node == Head(list)
       IN  IF is_shader(node) /\ node.type /= "OUTPUT_MATERIAL"
           THEN Sweep_shaders_only(Tail(list), nodes_remove(tree, node.id))
           ELSE Sweep_shaders_only(Tail(list), tree)

\* for node in list(nodes): remove shaders (but Material Outputs) and Blackbodies
RECURSIVE Sweep(_, _)
Sweep(list, tree) ==
  IF list = <<>> THEN tree
  ELSE LET node == Head(list)
       IN  IF (is_shader(node) /\ node.type /= "OUTPUT_MATERIAL") \/ node.type = "BLACKBODY"
           THEN Sweep(Tail(list), nodes_remove(tree, node.id))
           ELSE Sweep(Tail(list), tree)

make_it_lamp(obj, p, un, tree, sc, fs) ==
  IF obj = None
  THEN Outcome(p, un, tree, sc, fs, "ERROR", "", "AttributeError")
  ELSE IF active_material(obj) = None
  THEN Outcome(p, un, tree, sc, fs, "CANCELLED", "WARNING", "No active material found")
  ELSE
    LET t0 == enable_nodes(tree)
        t1 == Sweep(t0.nodes, t0)
        principled == FreshId(t1)
        t2 == nodes_new(t1, "ShaderNodeBsdfPrincipled")
        found == first_of_type(t2, "OUTPUT_MATERIAL")
        output_node == IF found = 0 THEN FreshId(t2) ELSE found
        t3 == IF found = 0 THEN nodes_new(t2, "ShaderNodeOutputMaterial") ELSE t2
        t4 == links_new(t3, principled, "BSDF", output_node, "Surface")
        t5 == set_input(set_input(set_input(t4, principled, "Metallic", R(0)),
                                  principled, "Roughness", Rat(50, 1000)),
                        principled, "IOR", Rat(1450, 1000))
        t6 == set_input(set_input(t5, principled, "IORLevel", Rat(705, 1000)),
                        principled, "TransmissionWeight", R(1))
        t7 == set_input(set_input(t6, principled, "CoatWeight", R(0)),
                        principled, "SheenWeight", R(0))
        bb == FreshId(t7)
        t8 == set_input(nodes_new(t7, "ShaderNodeBlackbody"), bb, "Temperature", R(3500))
        t9 == links_new(t8, bb, "Color", principled, "EmissionColor")
    IN  Outcome(p, TRUE, t9, sc, fs, "FINISHED", "INFO",
                "Material purged and PBR Lamp setup applied cleanly.")

(***************************************************************************)
(* MATERIAL_OT_calc_room_lumens.execute                                    *)
(***************************************************************************)
lux ==
  [ kitchen_gen  |-> <<150, 250, 350>>, kitchen_task    |-> <<300, 500, 700>>,
    living_gen   |-> <<100, 150, 200>>, living_read     |-> <<300, 400, 500>>,
    bedroom_gen  |-> <<60, 100, 150>>,  bedroom_read    |-> <<200, 300, 400>>,
    office       |-> <<300, 400, 500>>, workshop        |-> <<300, 500, 700>>,
    bathroom_gen |-> <<150, 250, 350>>, bathroom_mirror |-> <<300, 500, 700>>,
    studio       |-> <<500, 750, 1000>>, dining         |-> <<100, 150, 200>>,
    hallway      |-> <<50, 100, 150>>,  laundry         |-> <<200, 300, 400>>,
    gym          |-> <<200, 300, 400>>, patio           |-> <<50, 100, 150>> ]

temp_k ==
  [ kitchen_gen     |-> <<3000, 3500, 4000>>,
    kitchen_task    |-> <<4000, 4500, 5000>>,
    living_gen      |-> <<2700, 3000, 3500>>,
    living_read     |-> <<3000, 3500, 4000>>,
    bedroom_gen     |-> <<2500, 2700, 3000>>,
    bedroom_read    |-> <<2700, 3000, 3500>>,
    office          |-> <<4000, 4500, 5000>>,
    workshop        |-> <<4000, 5000, 6500>>,
    bathroom_gen    |-> <<3000, 3500, 4000>>,
    bathroom_mirror |-> <<4000, 4500, 5000>>,
    studio          |-> <<5000, 5500, 6500>>,
    dining          |-> <<2700, 3000, 3500>>,
    hallway         |-> <<2700, 3000, 4000>>,
    laundry         |-> <<3500, 4000, 4500>>,
    gym             |-> <<4000, 4500, 5000>>,
    patio           |-> <<2700, 3000, 4000>> ]

\* a variant without the max(0, ...) floor
h_factor_unfloored(height) ==
  RAdd(R(1), RMul(Rat(5, 100), RSub(RMul(height, Rat(328, 100)), R(10))))

\* h_factor = 1 + 0.05 * max(0, (height * 3.28) - 10)
h_factor(height) ==
  RAdd(R(1), RMul(Rat(5, 100), RMax(R(0), RSub(RMul(height, Rat(328, 100)), R(10)))))

\* props.room_area = area, when the bounding box is the source
room_area_step(p, area) ==
  SetProp(p, "room_area", area)

\* a variant that takes the object's height whatever the height source is
room_height_step_any_source(p) ==
  IF p.height_object /= None
  THEN LET h == object_height(p.height_object)
       IN  IF RLess(R(0), h) THEN SetProp(p, "room_height", h) ELSE p
  ELSE p

\* props.room_height = h, when an object is the source
room_height_step(p) ==
  IF p.height_source = "FROM_OBJECT" /\ p.height_object /= None
  THEN LET h == object_height(p.height_object)
       IN  IF RLess(R(0), h) THEN SetProp(p, "room_height", h) ELSE p
  ELSE p

\* a variant that unpacks the row in the wrong order
temp_assign_reversed(p, tk) ==
  SetProp(SetProp(SetProp(p, "temp_min", tk[3]), "temp_avg", tk[2]), "temp_max", tk[1])

\* props.temp_min, props.temp_avg, props.temp_max = temp_k
temp_assign(p, tk) ==
  SetProp(SetProp(SetProp(p, "temp_min", tk[1]), "temp_avg", tk[2]), "temp_max", tk[3])

\* the part of execute after the area source has been settled
room_lumens_step(p0) ==
  LET p1     == room_height_step(p0)
      area   == p1.room_area
      height == p1.room_height
      hf     == h_factor(height)
      lx     == lux[p1.room_type]
      tk     == temp_k[p1.room_type]
      p2     == SetProp(p1, "lumens_min", RMul(RMul(R(lx[1]), area), hf))
      p3     == SetProp(p2, "lumens_avg", RMul(RMul(R(lx[2]), area), hf))
      p4     == SetProp(p3, "lumens_max", RMul(RMul(R(lx[3]), area), hf))
  IN  IF p1.room_type \notin DOMAIN lux \/ p1.room_type \notin DOMAIN temp_k
      THEN [props |-> p1, result |-> "ERROR"]
      ELSE [props |-> temp_assign(p4, tk), result |-> "FINISHED"]

\* a variant that stores the detected area before validating it
calc_room_lumens_store_first(obj, p, un, tree, sc, fs) ==
  IF active_material(obj) = None
  THEN Outcome(p, un, tree, sc, fs, "ERROR", "", "AttributeError")
  ELSE
    LET area == bounding_box_area_xy(p, obj)
        p0   == IF p.room_area_source = "BOUNDING_BOX" THEN room_area_step(p, area) ELSE p
        r    == room_lumens_step(p0)
    IN  IF p.room_area_source = "BOUNDING_BOX" /\ RLeq(area, R(0))
        THEN Outcome(p0, un, tree, sc, fs, "CANCELLED", "WARNING", "Invalid bounding box area")
        ELSE IF r.result = "ERROR"
             THEN Outcome(r.props, un, tree, sc, fs, "ERROR", "", "KeyError")
             ELSE Outcome(r.props, un, tree, sc, fs, "FINISHED", "", "")

calc_room_lumens(obj, p, un, tree, sc, fs) ==
  IF active_material(obj) = None
  THEN Outcome(p, un, tree, sc, fs, "ERROR", "", "AttributeError")
  ELSE
    LET area == bounding_box_area_xy(p, obj)
    IN  IF p.room_area_source = "BOUNDING_BOX" /\ RLeq(area, R(0))
        THEN Outcome(p, un, tree, sc, fs, "CANCELLED", "WARNING", "Invalid bounding box area")
        ELSE LET p0 == IF p.room_area_source = "BOUNDING_BOX"
                       THEN room_area_step(p, area) ELSE p
                 r  == room_lumens_step(p0)
             IN  IF r.result = "ERROR"
                 THEN Outcome(r.props, un, tree, sc, fs, "ERROR", "", "KeyError")
                 ELSE Outcome(r.props, un, tree, sc, fs, "FINISHED", "", "")

(***************************************************************************)
(* MATERIAL_OT_use_lumens.execute                                          *)
(***************************************************************************)
Modes ==
  {"MIN", "AVG", "MAX"}

use_lumens(obj, mode, p, un, tree, sc, fs) ==
  IF active_material(obj) = None
  THEN Outcome(p, un, tree, sc, fs, "ERROR", "", "AttributeError")
  ELSE LET val == [MIN |-> p.lumens_min, AVG |-> p.lumens_avg, MAX |-> p.lumens_max][mode]
       IN  Outcome(SetProp(p, "lumens", val), un, tree, sc, fs, "FINISHED", "", "")

(***************************************************************************)
(* MATERIAL_OT_apply_temperature.execute                                   *)
(***************************************************************************)
\* a variant that always creates a node
always_create_blackbody(tree) ==
  [bb |-> FreshId(tree), tree |-> nodes_new(tree, "ShaderNodeBlackbody")]

\* Find or create Blackbody node
find_or_create_blackbody(tree) ==
  IF first_of_type(tree, "BLACKBODY") = 0
  THEN [bb |-> FreshId(tree), tree |-> nodes_new(tree, "ShaderNodeBlackbody")]
  ELSE [bb |-> first_of_type(tree, "BLACKBODY"), tree |-> tree]

apply_temperature(obj, mode, p, un, tree, sc, fs) ==
  IF obj = None
  THEN Outcome(p, un, tree, sc, fs, "ERROR", "", "AttributeError")
  ELSE IF active_material(obj) = None \/ ~un
  THEN Outcome(p, un, tree, sc, fs, "CANCELLED", "WARNING", "Material must use nodes")
  ELSE
    LET temp == [MIN |-> p.temp_min, AVG |-> p.temp_avg, MAX |-> p.temp_max][mode]
        f    == find_or_create_blackbody(tree)
        t1   == set_input(f.tree, f.bb, "Temperature", R(temp))
        principled == first_of_type(t1, "BSDF_PRINCIPLED")
    IN  IF principled /= 0
        THEN Outcome(p, un, links_new(t1, f.bb, "Color", principled, "EmissionColor"),
                     sc, fs, "FINISHED", "INFO", "Applied temperature to Emission Color")
        ELSE Outcome(p, un, t1, sc, fs, "FINISHED", "INFO",
                     "Created/updated Blackbody node")

(***************************************************************************)
(* MATERIAL_OT_calc_emission_strength.execute                              *)
(***************************************************************************)
\* bpy.ops.object.transform_apply(scale=True) on obj: the (uniform) object
\* scale is baked into the mesh, so local face areas grow by its square.
transform_apply_faces(obj, sc, fs) ==
  [fs EXCEPT ![obj] = [i \in 1..Len(@) |->
      [@[i] EXCEPT !.area = RMul(@, R(sc[obj] * sc[obj]))]]]

transform_apply_scale(obj, sc) ==
  [sc EXCEPT ![obj] = 1]

\* Area calculation
emission_area(obj, p, fs) ==
  IF ~p.auto_area THEN p.area ELSE get_active_material_area(obj, fs)

\* a variant that forgets the number of lights
emission_strength_one_light(p, area) ==
  RDiv(RDiv(p.lumens, p.ler), area)

\* strength = (props.lumens / props.ler) / total_area
emission_strength(p, area) ==
  RDiv(RDiv(p.lumens, p.ler), RMul(area, R(p.num_lights)))

\* Update material nodes
emission_nodes(tree, strength) ==
  LET t0    == enable_nodes(tree)
      found == first_of_type(t0, "OUTPUT_MATERIAL")
      out   == IF found = 0 THEN FreshId(t0) ELSE found
      t1    == IF found = 0 THEN nodes_new(t0, "ShaderNodeOutputMaterial") ELSE t0
      surf  == {l \in t1.links : l.to_node = out /\ l.to_socket = "Surface"}
      current == IF surf /= {} THEN (CHOOSE l \in surf : TRUE).from_node ELSE 0
      em    == FreshId(t1)
  IN  IF current /= 0 /\ node_by_id(t1, current).type = "BSDF_PRINCIPLED"
      THEN set_input(t1, current, "EmissionStrength", strength)
      ELSE set_input(links_new(nodes_new(t1, "ShaderNodeEmission"),
                               em, "Emission", out, "Surface"),
                     em, "Strength", strength)

calc_emission_strength(obj, p, un, tree, sc, fs) ==
  IF obj = None \/ Scene[obj].type /= "MESH"
  THEN Outcome(p, un, tree, sc, fs, "CANCELLED", "WARNING", "Select a mesh object")
  ELSE IF active_material(obj) = None
  THEN Outcome(p, un, tree, sc, fs, "CANCELLED", "WARNING", "No active material found")
  ELSE
    LET fs1  == transform_apply_faces(obj, sc, fs)
        sc1  == transform_apply_scale(obj, sc)
        area == emission_area(obj, p, fs1)
    IN  IF RLeq(area, R(0))
        THEN Outcome(p, un, tree, sc1, fs1, "CANCELLED", "WARNING", "Invalid emission area")
        ELSE IF p.ler.n = 0 \/ p.num_lights = 0
        THEN Outcome(p, un, tree, sc1, fs1, "ERROR", "", "ZeroDivisionError")
        ELSE LET strength == emission_strength(p, area)
             IN  Outcome(SetProp(p, "strength", strength), TRUE,
                         emission_nodes(tree, strength), sc1, fs1,
                         "FINISHED", "INFO", "Emission Strength set")

(***************************************************************************)
(* Initial states: the material has just received its emission_props (all  *)
(* defaults); its node graph and the context object are whatever the user  *)
(* had.  The context object stays the same throughout a session.           *)
(***************************************************************************)
Node(id, type) ==
  [id |-> id, type |-> type, inputs |-> NodeInputs[type]]

Link(fn, fs, tn, ts) ==
  [from_node |-> fn, from_socket |-> fs, to_node |-> tn, to_socket |-> ts]

\* an Emission shader on the output, two Blackbody nodes, an image texture
LegacyTree ==
  [present |-> TRUE,
   nodes   |-> <<Node(1, "EMISSION"), Node(2, "OUTPUT_MATERIAL"), Node(3, "BLACKBODY"),
                 Node(4, "BLACKBODY"), Node(5, "TEX_IMAGE")>>,
   links   |-> {Link(1, "Emission", 2, "Surface"), Link(3, "Color", 1, "Color")}]

\* two Material Outputs, two Principled BSDFs mixed into the second output,
\* an image texture plugged into the first output
MixedTree ==
  [present |-> TRUE,
   nodes   |-> <<Node(1, "TEX_IMAGE"), Node(2, "OUTPUT_MATERIAL"), Node(3, "BSDF_PRINCIPLED"),
                 Node(4, "BSDF_PRINCIPLED"), Node(5, "MIX_SHADER"),
                 Node(6, "OUTPUT_MATERIAL")>>,
   links   |-> {Link(1, "Color", 2, "Surface"), Link(3, "BSDF", 5, "Shader1"),
                Link(4, "BSDF", 5, "Shader2"), Link(5, "Shader", 6, "Surface")}]

StartGraphs ==
  { [use_nodes |-> FALSE, node_tree |-> NoTree],
    [use_nodes |-> FALSE, node_tree |-> DefaultTree],
    [use_nodes |-> TRUE,  node_tree |-> DefaultTree],
    [use_nodes |-> TRUE,  node_tree |-> EmptyTree],
    [use_nodes |-> TRUE,  node_tree |-> LegacyTree],
    [use_nodes |-> TRUE,  node_tree |-> MixedTree] }

\* local-space faces of every object: [material_index, area in m2]
StartFaces ==
  [ Bulb  |-> << [material_index |-> 0, area |-> Rat(1, 400)],
                 [material_index |-> 0, area |-> Rat(1, 400)],
                 [material_index |-> 1, area |-> Rat(1, 100)] >>,
    Room  |-> << [material_index |-> 1, area |-> R(20)] >>,
    Wire  |-> << >>,
    Curve |-> << >>,
    Blank |-> << >> ]

StartScale ==
  [ Bulb |-> 2, Room |-> 3, Wire |-> 1, Curve |-> 1, Blank |-> 1 ]

NoReport ==
  [level |-> "", msg |-> ""]

Init ==
  /\ props = DefaultProps
  /\ \E g \in StartGraphs : use_nodes = g.use_nodes /\ node_tree = g.node_tree
  /\ ctx \in Pointers
  /\ obj_scale = StartScale
  /\ faces = StartFaces
  /\ call = [op |-> "register", arg |-> "", nth |-> 1]
  /\ result = "NONE"
  /\ report = NoReport
  /\ steps = 0

(***************************************************************************)
(* Property edits (the host's property system) and the context.            *)
(***************************************************************************)
\* what was done last: the property or operator, its argument, and how many
\* times in a row it has now been done
Called(name, arg) ==
  [op |-> name, arg |-> arg, nth |-> IF call.op = name THEN call.nth + 1 ELSE 1]

Edit(name, arg, p) ==
  /\ steps < MaxSteps
  /\ steps' = steps + 1
  /\ props' = p
  /\ call' = Called(name, arg)
  /\ result' = "NONE"
  /\ report' = NoReport
  /\ UNCHANGED <<use_nodes, node_tree, ctx, obj_scale, faces>>

LumensInputs ==
  {R(-5), R(1600)}

LerInputs ==
  {R(0), R(120)}

AreaInputs ==
  {R(0), Rat(5, 100)}

NumLightsInputs ==
  {0, 2}

RoomAreaInputs ==
  {Rat(1, 2), R(12)}

RoomHeightInputs ==
  {Rat(1, 10), R(4)}

WallAInputs ==
  {None, "Room", "Wire"}

WallBInputs ==
  {None, "Bulb"}

RoomTypeInputs ==
  {"living_gen", "studio", "bedroom_gen"}

SetLumens ==
  \E v \in LumensInputs : Edit("lumens", "", SetProp(props, "lumens", v))

SetLerPreset ==
  \E id \in LerPresets :
    Edit("ler_preset", "", update_ler_from_preset(SetProp(props, "ler_preset", id)))

SetLer ==
  \E v \in LerInputs : Edit("ler", "", SetProp(props, "ler", v))

SetAutoArea ==
  \E b \in BOOLEAN \ {props.auto_area} : Edit("auto_area", "", SetProp(props, "auto_area", b))

SetArea ==
  \E v \in AreaInputs : Edit("area", "", SetProp(props, "area", v))

SetNumLights ==
  \E v \in NumLightsInputs : Edit("num_lights", "", SetProp(props, "num_lights", v))

SetRoomAreaSource ==
  \E v \in {"MANUAL", "BOUNDING_BOX"} \ {props.room_area_source} :
    Edit("room_area_source", "", SetProp(props, "room_area_source", v))

SetRoomArea ==
  \E v \in RoomAreaInputs : Edit("room_area", "", SetProp(props, "room_area", v))

SetWallA ==
  \E o \in WallAInputs : Edit("wall_a", o, SetProp(props, "wall_a", o))

SetWallB ==
  \E o \in WallBInputs : Edit("wall_b", o, SetProp(props, "wall_b", o))

SetHeightSource ==
  \E v \in {"MANUAL", "FROM_OBJECT"} \ {props.height_source} :
    Edit("height_source", "", SetProp(props, "height_source", v))

SetHeightObject ==
  \E o \in Pointers :
    Edit("height_object", o, update_height_from_object(SetProp(props, "height_object", o)))

SetRoomHeight ==
  \E v \in RoomHeightInputs : Edit("room_height", "", SetProp(props, "room_height", v))

SetRoomType ==
  \E k \in RoomTypeInputs : Edit("room_type", "", SetProp(props, "room_type", k))

SetAnyRoomType ==
  \E k \in RoomTypes : Edit("room_type", "", SetProp(props, "room_type", k))

(***************************************************************************)
(* Operator invocations.                                                   *)
(***************************************************************************)
Invoke(name, arg, out) ==
  /\ steps < MaxSteps
  /\ steps' = steps + 1
  /\ call' = Called(name, arg)
  /\ props' = out.props
  /\ use_nodes' = out.use_nodes
  /\ node_tree' = out.node_tree
  /\ obj_scale' = out.obj_scale
  /\ faces' = out.faces
  /\ result' = out.result
  /\ report' = out.report
  /\ UNCHANGED ctx

MakeItLamp ==
  Invoke("make_it_lamp", "", make_it_lamp(ctx, props, use_nodes, node_tree, obj_scale, faces))

CalcRoomLumens ==
  Invoke("calc_room_lumens", "",
         calc_room_lumens(ctx, props, use_nodes, node_tree, obj_scale, faces))

UseLumens ==
  \E mode \in Modes :
    Invoke("use_lumens", mode,
           use_lumens(ctx, mode, props, use_nodes, node_tree, obj_scale, faces))

ApplyTemperature ==
  \E mode \in Modes :
    Invoke("apply_temperature", mode,
           apply_temperature(ctx, mode, props, use_nodes, node_tree, obj_scale, faces))

CalcEmissionStrength ==
  Invoke("calc_emission_strength", "",
         calc_emission_strength(ctx, props, use_nodes, node_tree, obj_scale, faces))

\* Operators and properties reached through the Python API or operator search.
Next ==
  \/ SetLumens
  \/ SetLerPreset
  \/ SetLer
  \/ SetAutoArea
  \/ SetArea
  \/ SetNumLights
  \/ SetRoomAreaSource
  \/ SetRoomArea
  \/ SetWallA
  \/ SetWallB
  \/ SetHeightSource
  \/ SetHeightObject
  \/ SetRoomHeight
  \/ SetRoomType
  \/ MakeItLamp
  \/ CalcRoomLumens
  \/ UseLumens
  \/ ApplyTemperature
  \/ CalcEmissionStrength

Spec ==
  Init /\ [][Next]_vars

(***************************************************************************)
(* The panel: MATERIAL_PT_emission_calculator.draw decides which widgets   *)
(* are shown and enabled.                                                  *)
(***************************************************************************)
PanelDrawn ==
  ctx /= None /\ active_material(ctx) /= None

PanelNext ==
  \/ PanelDrawn /\ MakeItLamp
  \/ PanelDrawn /\ SetRoomAreaSource
  \/ PanelDrawn /\ props.room_area_source = "MANUAL" /\ SetRoomArea
  \/ PanelDrawn /\ props.room_area_source /= "MANUAL" /\ SetWallA
  \/ PanelDrawn /\ props.room_area_source /= "MANUAL" /\ SetWallB
  \/ PanelDrawn /\ SetHeightSource
  \/ PanelDrawn /\ props.height_source = "MANUAL" /\ SetRoomHeight
  \/ PanelDrawn /\ props.height_source /= "MANUAL" /\ SetHeightObject
  \/ PanelDrawn /\ SetRoomType
  \/ PanelDrawn /\ CalcRoomLumens
  \/ PanelDrawn /\ RLess(R(0), props.lumens_avg) /\ UseLumens
  \/ PanelDrawn /\ props.temp_avg > 0 /\ ApplyTemperature
  \/ PanelDrawn /\ SetLumens
  \/ PanelDrawn /\ SetLerPreset
  \/ PanelDrawn /\ props.ler_preset = CUSTOM /\ SetLer
  \/ PanelDrawn /\ SetAutoArea
  \/ PanelDrawn /\ ~props.auto_area /\ SetArea
  \/ PanelDrawn /\ SetNumLights
  \/ PanelDrawn /\ CalcEmissionStrength

SpecPanel ==
  Init /\ [][PanelNext]_vars

(***************************************************************************)
(* The room estimator alone, over every room type of the enum.             *)
(***************************************************************************)
RoomNext ==
  \/ SetAnyRoomType
  \/ SetRoomAreaSource
  \/ SetRoomArea
  \/ SetHeightSource
  \/ SetHeightObject
  \/ SetRoomHeight
  \/ CalcRoomLumens
  \/ UseLumens

SpecRooms ==
  Init /\ [][RoomNext]_vars

(***************************************************************************)
(* The ceiling height alone.  The user has already picked a height source  *)
(* and a height object: picking the object first and the source second     *)
(* fires no update callback, so every such pair goes with the default      *)
(* room_height.                                                            *)
(***************************************************************************)
InitHeight ==
  /\ \E hs \in {"MANUAL", "FROM_OBJECT"}, o \in Pointers :
       props = [DefaultProps EXCEPT !.height_source = hs, !.height_object = o]
  /\ \E g \in StartGraphs : use_nodes = g.use_nodes /\ node_tree = g.node_tree
  /\ ctx \in Pointers
  /\ obj_scale = StartScale
  /\ faces = StartFaces
  /\ call = [op |-> "register", arg |-> "", nth |-> 1]
  /\ result = "NONE"
  /\ report = NoReport
  /\ steps = 0

HeightNext ==
  \/ SetHeightSource
  \/ SetHeightObject
  \/ SetRoomHeight
  \/ SetRoomAreaSource
  \/ CalcRoomLumens

SpecHeight ==
  InitHeight /\ [][HeightNext]_vars

TypeOK ==
  /\ ctx \in Pointers
  /\ result \in {"NONE", "FINISHED", "CANCELLED", "ERROR"}
  /\ steps \in 0..MaxSteps
  /\ props.ler_preset \in LerPresets
  /\ props.room_type \in RoomTypes

(***************************************************************************)
(* Properties.                                                             *)
(***************************************************************************)
Finished(name) ==
  call.op = name /\ result = "FINISHED"

\* the area calc_emission_strength is to use, read off the state
ChosenArea ==
  IF props.auto_area THEN get_active_material_area(ctx, faces) ELSE props.area

\* C1: calc_emission_strength returns FINISHED only when the context object
\* is a mesh with an active material and the chosen area (props.area when
\* auto_area is off, otherwise the summed area of the faces using the active
\* material slot) is > 0, and then props.strength =
\* lumens / (ler * area * num_lights).
C1_EmissionStrength ==
  Finished("calc_emission_strength") =>
    /\ ctx /= None
    /\ Scene[ctx].type = "MESH"
    /\ active_material(ctx) /= None
    /\ RLess(R(0), ChosenArea)
    /\ props.strength =
         RDiv(props.lumens, RMul(RMul(props.ler, ChosenArea), R(props.num_lights)))

C1_Witness ==
  /\ Finished("calc_emission_strength")
  /\ props.num_lights = 2
  /\ RLess(R(0), props.strength)

\* the height factor as the claim words it: 1 up to 10 ft, and
\* 1 + 0.05 * (feet - 10) above
ClaimedHeightFactor(h) ==
  IF RLeq(RMul(h, Rat(328, 100)), R(10))
  THEN R(1)
  ELSE RAdd(R(1), RDiv(RSub(RMul(h, Rat(328, 100)), R(10)), R(20)))

HeightSamples ==
  {Rat(1, 2), Rat(27, 10), R(3), Rat(304, 100), Rat(305, 100), Rat(31, 10), R(4), R(6)}

\* C2: when calc_room_lumens finishes, lumens_min/avg/max are lux_min/avg/max
\* of the selected room type times room_area times height_factor, where
\* height_factor is 1 for every room_height up to 10 ft, never below 1 and
\* non-decreasing in room_height.
C2_RoomLumens ==
  Finished("calc_room_lumens") =>
    LET hf == ClaimedHeightFactor(props.room_height)
        lx == lux[props.room_type]
    IN  /\ props.lumens_min = RMul(RMul(R(lx[1]), props.room_area), hf)
        /\ props.lumens_avg = RMul(RMul(R(lx[2]), props.room_area), hf)
        /\ props.lumens_max = RMul(RMul(R(lx[3]), props.room_area), hf)
        /\ RLeq(R(1), hf)
        /\ RLeq(RMul(props.room_height, Rat(328, 100)), R(10)) => hf = R(1)
        /\ \A h \in HeightSamples :
             /\ RLeq(h, props.room_height) => RLeq(h_factor(h), hf)
             /\ RLeq(props.room_height, h) => RLeq(hf, h_factor(h))
             /\ RLeq(R(1), h_factor(h))

C2_Witness ==
  /\ Finished("calc_room_lumens")
  /\ props.room_height = R(4)
  /\ RLess(RMul(R(150), props.room_area), props.lumens_avg)

Operators ==
  {"make_it_lamp", "calc_room_lumens", "use_lumens", "apply_temperature",
   "calc_emission_strength"}

\* C3: every one of the five operators, invoked on a context object that
\* has no active material, reports a warning and returns CANCELLED; none
\* fails with an unhandled error.
C3_NoMaterialCancelled ==
  (call.op \in Operators /\ ctx /= None /\ active_material(ctx) = None) =>
    (result = "CANCELLED" /\ report.level = "WARNING")

C3_Witness ==
  /\ call.op = "calc_room_lumens"
  /\ ctx /= None
  /\ active_material(ctx) = None
  /\ result = "ERROR"

\* C4: whenever an operator returns CANCELLED, every field of emission_props
\* and the material's node tree (use_nodes, nodes, links, node values) are
\* what they were before the invocation.
C4_CancelledChangesNothing ==
  [][result' = "CANCELLED" =>
       (props' = props /\ use_nodes' = use_nodes /\ node_tree' = node_tree)]_vars

C4_Witness ==
  /\ call.op = "calc_emission_strength"
  /\ result = "CANCELLED"
  /\ report.msg = "Invalid emission area"
  /\ obj_scale /= StartScale

\* C5: in every reachable state ler >= 1, area >= 0.0001, num_lights >= 1,
\* room_area >= 1, room_height >= 0.5 and lumens >= 0, so the divisor
\* ler * area * num_lights of calc_emission_strength is never zero.
C5_NumericBounds ==
  /\ RLeq(R(1), props.ler)
  /\ RLeq(Rat(1, 10000), props.area)
  /\ props.num_lights >= 1
  /\ RLeq(R(1), props.room_area)
  /\ RLeq(Rat(1, 2), props.room_height)
  /\ RLeq(R(0), props.lumens)
  /\ RMul(RMul(props.ler, props.area), R(props.num_lights)).n /= 0
  /\ report.msg /= "ZeroDivisionError"

C5_Witness ==
  /\ Finished("calc_room_lumens")
  /\ props.room_area_source = "BOUNDING_BOX"
  /\ RLess(bounding_box_area_xy(props, ctx), R(1))
  /\ props.room_area = R(1)

LabelLux(k) ==
  room_type_items[CHOOSE i \in 1..Len(room_type_items) : room_type_items[i].key = k].label_lux

\* C6: for every one of the 16 room_type keys calc_room_lumens finds an
\* entry in the lux table and in the colour temperature table, the middle
\* lux value used for lumens_avg is the figure advertised in the room
\* type's label, and on FINISHED temp_min, temp_avg, temp_max are the three
\* Kelvin values of the room type's row.
C6_RoomTables ==
  /\ Cardinality(RoomTypes) = 16
  /\ props.room_type \in DOMAIN lux
  /\ props.room_type \in DOMAIN temp_k
  /\ report.msg /= "KeyError"
  /\ Finished("calc_room_lumens") =>
       /\ props.lumens_avg =
            RMul(RMul(R(LabelLux(props.room_type)), props.room_area),
                 ClaimedHeightFactor(props.room_height))
       /\ <<props.temp_min, props.temp_avg, props.temp_max>> = temp_k[props.room_type]

C6_Witness ==
  /\ Finished("calc_room_lumens")
  /\ props.room_type = "patio"
  /\ props.temp_max = 4000

CountType(tree, t) ==
  Cardinality({i \in 1..Len(tree.nodes) : tree.nodes[i].type = t})

TypeOfId(tree, id) ==
  node_by_id(tree, id).type

\* node counts per type, and links by the types of their two ends
TypeCounts(tree) ==
  [t \in {NodeType[k] : k \in DOMAIN NodeType} |-> CountType(tree, t)]

LinkShapes(tree) ==
  {<<TypeOfId(tree, l.from_node), l.from_socket, TypeOfId(tree, l.to_node), l.to_socket>> :
     l \in tree.links}

LampGraph(tree) ==
  /\ CountType(tree, "BSDF_PRINCIPLED") = 1
  /\ CountType(tree, "BLACKBODY") = 1
  /\ \A i \in 1..Len(tree.nodes) :
       (\E o \in DOMAIN NodeOutputs[tree.nodes[i].type] :
          NodeOutputs[tree.nodes[i].type][o] = "SHADER")
       => tree.nodes[i].type \in {"BSDF_PRINCIPLED", "OUTPUT_MATERIAL"}
  /\ CountType(tree, "OUTPUT_MATERIAL") >= 1
  /\ \E l \in tree.links :
       /\ TypeOfId(tree, l.from_node) = "BSDF_PRINCIPLED" /\ l.from_socket = "BSDF"
       /\ TypeOfId(tree, l.to_node) = "OUTPUT_MATERIAL" /\ l.to_socket = "Surface"
  /\ \E l \in tree.links :
       /\ TypeOfId(tree, l.from_node) = "BLACKBODY"
       /\ node_by_id(tree, l.from_node).inputs.Temperature = R(3500)
       /\ TypeOfId(tree, l.to_node) = "BSDF_PRINCIPLED" /\ l.to_socket = "EmissionColor"

\* C7: after make_it_lamp finishes on any starting graph the material uses
\* nodes and has exactly one Principled BSDF, exactly one Blackbody and no
\* other shader node apart from Material Outputs; a Material Output exists
\* (created only if there was none); the Principled BSDF feeds a Material
\* Output's Surface; the Blackbody holds 3500 K and feeds Emission Color.
\* A second run in a row leaves the node counts and the links as they were.
C7_MakeItLamp ==
  [][(call'.op = "make_it_lamp" /\ result' = "FINISHED") =>
       /\ use_nodes'
       /\ LampGraph(node_tree')
       /\ CountType(node_tree', "OUTPUT_MATERIAL") =
            (IF CountType(node_tree, "OUTPUT_MATERIAL") = 0
             THEN 1 ELSE CountType(node_tree, "OUTPUT_MATERIAL"))
       /\ (call.op = "make_it_lamp" /\ result = "FINISHED") =>
            /\ TypeCounts(node_tree') = TypeCounts(node_tree)
            /\ LinkShapes(node_tree') = LinkShapes(node_tree)
            /\ Cardinality(node_tree'.links) = Cardinality(node_tree.links)]_vars

C7_Witness ==
  /\ Finished("make_it_lamp")
  /\ call.nth = 2
  /\ CountType(node_tree, "TEX_IMAGE") = 1

\* C8: apply_temperature on a material that uses nodes takes the existing
\* Blackbody node, or creates one only if there is none, sets its
\* temperature to temp_min/avg/max as selected by mode and links it to the
\* Emission Color of a Principled BSDF when one exists; so over repeated
\* invocations the number of Blackbody nodes stays max(1, what it was).
C8_ApplyTemperature ==
  [][(call'.op = "apply_temperature" /\ result' = "FINISHED") =>
       LET before == CountType(node_tree, "BLACKBODY")
           after  == CountType(node_tree', "BLACKBODY")
           bb     == first_of_type(node_tree', "BLACKBODY")
           temp   == CASE call'.arg = "MIN" -> props.temp_min
                       [] call'.arg = "AVG" -> props.temp_avg
                       [] call'.arg = "MAX" -> props.temp_max
       IN  /\ use_nodes
           /\ after = (IF before = 0 THEN 1 ELSE before)
           /\ before > 0 =>
                (bb = first_of_type(node_tree, "BLACKBODY")
                   /\ Len(node_tree'.nodes) = Len(node_tree.nodes))
           /\ node_by_id(node_tree', bb).inputs.Temperature = R(temp)
           /\ CountType(node_tree, "BSDF_PRINCIPLED") > 0 =>
                \E l \in node_tree'.links :
                  /\ l.from_node = bb /\ l.from_socket = "Color"
                  /\ TypeOfId(node_tree', l.to_node) = "BSDF_PRINCIPLED"
                  /\ l.to_socket = "EmissionColor"]_vars

C8_Witness ==
  /\ Finished("apply_temperature")
  /\ call.nth = 2
  /\ CountType(node_tree, "BLACKBODY") = 1
  /\ CountType(node_tree, "BSDF_PRINCIPLED") = 0

PresetSynced(p) ==
  p.ler_preset /= CUSTOM => p.ler = float(p.ler_preset)

\* C9: selecting a ler_preset other than CUSTOM sets ler to the preset's
\* number and selecting CUSTOM leaves ler as it is; through the panel, which
\* lets ler be edited only while the preset is CUSTOM, every reachable
\* state has ler_preset /= CUSTOM => ler = float(ler_preset).
C9_PresetSync ==
  [][/\ PresetSynced(props)
     /\ PresetSynced(props')
     /\ call'.op = "ler_preset" =>
          (IF props'.ler_preset /= CUSTOM
           THEN props'.ler = float(props'.ler_preset)
           ELSE props'.ler = props.ler)]_vars

C9_Witness ==
  /\ call.op = "ler_preset"
  /\ props.ler_preset = <<"6", "8", "3">>
  /\ props.ler = R(683)
  /\ steps = 2

\* C10: with room_area_source = BOUNDING_BOX and a detected area a > 0, also
\* for 0 < a < 1, calc_room_lumens finishes with room_area = a and with the
\* lumens computed from a, the area the panel shows as Calculated Area; with
\* MANUAL the bounding box is not consulted and room_area is left unchanged.
C10_BoundingBoxArea ==
  [][(call'.op = "calc_room_lumens" /\ active_material(ctx) /= None) =>
       LET a  == bounding_box_area_xy(props, ctx)
           lx == lux[props'.room_type]
       IN  /\ (props.room_area_source = "BOUNDING_BOX" /\ RLess(R(0), a)) =>
                /\ result' = "FINISHED"
                /\ props'.room_area = a
                /\ props'.lumens_avg =
                     RMul(RMul(R(lx[2]), a), ClaimedHeightFactor(props'.room_height))
           /\ props.room_area_source = "MANUAL" =>
                (result' = "FINISHED" /\ props'.room_area = props.room_area)]_vars

C10_Witness ==
  /\ Finished("calc_room_lumens")
  /\ props.room_area_source = "BOUNDING_BOX"
  /\ bounding_box_area_xy(props, ctx) = Rat(1, 2)
  /\ props.room_area = R(1)

\* the Z extent of an object's vertices in decimetres, read off the scene
ZExtent(o) ==
  LET zs == {v[3] : v \in Scene[o].verts}
  IN  SetMax(zs) - SetMin(zs)

\* the geometry from which room_height is taken: a height object is set and
\* its measured Z extent is > 0
Measurable(p) ==
  /\ p.height_source = "FROM_OBJECT"
  /\ p.height_object /= None
  /\ RLess(R(0), object_height(p.height_object))

\* C11: room_height is overwritten from geometry only when height_source =
\* FROM_OBJECT, a height_object is set and its measured Z extent h is > 0
\* (in calc_room_lumens and in the height_object update callback, the latter
\* also requiring a mesh); with a MANUAL source, no object, a non-mesh object
\* or h = 0 room_height keeps its value.  object_height is 0 for a missing
\* or non-mesh object and for a mesh without vertices, and never negative.
C11_RoomHeightFrame ==
  [][/\ call'.op = "calc_room_lumens" =>
          IF Measurable(props) /\ result' = "FINISHED"
          THEN props'.room_height = RMax(Rat(1, 2), object_height(props.height_object))
          ELSE props'.room_height = props.room_height
     /\ call'.op = "height_object" =>
          IF Measurable(props') /\ Scene[props'.height_object].type = "MESH"
          THEN props'.room_height = RMax(Rat(1, 2), object_height(props'.height_object))
          ELSE props'.room_height = props.room_height
     /\ LET o == props'.height_object
        IN  /\ RLeq(R(0), object_height(o))
            /\ (o = None \/ Scene[o].type /= "MESH" \/ Scene[o].verts = {})
                 => object_height(o) = R(0)
            /\ (o /= None /\ Scene[o].type = "MESH" /\ Scene[o].verts /= {})
                 => object_height(o) = Rat(ZExtent(o), 10)]_vars

C11_Witness ==
  /\ Finished("calc_room_lumens")
  /\ props.height_source = "FROM_OBJECT"
  /\ props.height_object = "Curve"
  /\ props.room_height = Rat(27, 10)

====
